---- MODULE Spec2Model ----
(***************************************************************************)
(* secure-role-guard: the role registry (defineRoles) and the permission  *)
(* engine (canUser, canUserAll, canUserAny, checkPermission).             *)
(*                                                                         *)
(* JavaScript strings are sequences of one-character strings, so that      *)
(* split, trim and template concatenation are computed, not assumed.       *)
(* Arrays live in a heap of references, so that copying, aliasing and      *)
(* Object.freeze are visible.                                              *)
(***************************************************************************)
EXTENDS Integers, Sequences, FiniteSets, TLC

(* ------------------------------------------------------------------ *)
(* Strings                                                              *)
(* ------------------------------------------------------------------ *)

\* permission-engine.ts:11
WILDCARD_PERMISSION == <<"*">>

Dot == "."

\* the characters String.prototype.trim removes
Whitespace == {" ", "\t", "\n"}

RECURSIVE TrimStart(_)
TrimStart(s) ==
  IF s # <<>> /\ Head(s) \in Whitespace THEN TrimStart(Tail(s)) ELSE s

RECURSIVE TrimEnd(_)
TrimEnd(s) ==
  IF s # <<>> /\ s[Len(s)] \in Whitespace
  THEN TrimEnd(SubSeq(s, 1, Len(s) - 1))
  ELSE s

\* String.prototype.trim
Trim(s) == TrimEnd(TrimStart(s))

\* index of the first "." of s, 0 when there is none
IndexOfDot(s) ==
  IF \E i \in 1..Len(s) : s[i] = Dot
  THEN CHOOSE i \in 1..Len(s) : s[i] = Dot /\ \A j \in 1..(i - 1) : s[j] # Dot
  ELSE 0

\* requested.split("."): "" gives [""], ".a." gives ["", "a", ""]
RECURSIVE Split(_)
Split(s) ==
  LET i == IndexOfDot(s) IN
  IF i = 0 THEN <<s>>
  ELSE <<SubSeq(s, 1, i - 1)>> \o Split(SubSeq(s, i + 1, Len(s)))

\* the set of elements of a sequence
Range(q) == {q[i] : i \in 1..Len(q)}

(* ------------------------------------------------------------------ *)
(* JavaScript values, arrays and plain objects                          *)
(* ------------------------------------------------------------------ *)

\* A value: kind is "undefined", "array" (ref is its place in the heap),
\* "function" (a built-in such as Object) or "object" (Object.prototype).
Undefined == [kind |-> "undefined", ref |-> 0]
ArrayRef(r) == [kind |-> "array", ref |-> r]
BuiltinFunction == [kind |-> "function", ref |-> 0]
ObjectPrototype == [kind |-> "object", ref |-> 0]

\* A heap is a sequence of arrays; an array is its items and whether
\* Object.freeze has been applied to it.
NewArray(items, frozen) == [items |-> items, frozen |-> frozen]

\* Role names a caller may write; the last three name properties every
\* plain object inherits from Object.prototype.
RoleAdmin == <<"a", "d", "m", "i", "n">>
RoleManager == <<"m", "g", "r">>
RoleConstructor == <<"c", "o", "n", "s", "t", "r", "u", "c", "t", "o", "r">>
RoleToString == <<"t", "o", "S", "t", "r", "i", "n", "g">>
RoleProto == <<"_", "_", "p", "r", "o", "t", "o", "_", "_">>

\* function-valued properties of Object.prototype
ObjectPrototypeFunctions ==
  {RoleConstructor, RoleToString,
   <<"v", "a", "l", "u", "e", "O", "f">>,
   <<"h", "a", "s", "O", "w", "n", "P", "r", "o", "p", "e", "r", "t", "y">>}

\* A plain object: its own properties in insertion order, and proto, the
\* heap place of the array that has become its prototype (0: Object.prototype).
EmptyObject == [props |-> <<>>, proto |-> 0]

\* Object.keys(obj)
ObjectKeys(obj) == [i \in 1..Len(obj.props) |-> obj.props[i].key]

\* Object.prototype.hasOwnProperty.call(obj, key)
HasOwnProperty(obj, key) == \E i \in 1..Len(obj.props) : obj.props[i].key = key

OwnValue(obj, key) ==
  obj.props[CHOOSE i \in 1..Len(obj.props) : obj.props[i].key = key].val

\* obj[key]: own property, else the __proto__ accessor, else what the
\* prototype chain holds under that name.
GetProperty(obj, key) ==
  IF HasOwnProperty(obj, key) THEN OwnValue(obj, key)
  ELSE IF key = RoleProto
       THEN (IF obj.proto = 0 THEN ObjectPrototype ELSE ArrayRef(obj.proto))
  ELSE IF key \in ObjectPrototypeFunctions THEN BuiltinFunction
  ELSE Undefined

\* obj[key] = value on an extensible object: the inherited __proto__ setter
\* changes the prototype when value is an object, any other key becomes
\* (or stays) an own property.
SetProperty(obj, key, value) ==
  IF HasOwnProperty(obj, key)
  THEN [obj EXCEPT !.props =
          [i \in 1..Len(obj.props) |->
             IF obj.props[i].key = key
             THEN [key |-> key, val |-> value] ELSE obj.props[i]]]
  ELSE IF key = RoleProto
       THEN (IF value.kind = "array" THEN [obj EXCEPT !.proto = value.ref] ELSE obj)
  ELSE [obj EXCEPT !.props = Append(obj.props, [key |-> key, val |-> value])]

\* Object.defineProperty / a JSON.parse result: key becomes an own property
\* whatever its name.
DefineOwnProperty(obj, key, value) ==
  IF HasOwnProperty(obj, key) THEN SetProperty(obj, key, value)
  ELSE [obj EXCEPT !.props = Append(obj.props, [key |-> key, val |-> value])]

\* delete obj[key]
DeleteProperty(obj, key) ==
  [obj EXCEPT !.props = SelectSeq(obj.props, LAMBDA e : e.key # key)]

(* ------------------------------------------------------------------ *)
(* role-registry: defineRoles                                            *)
(* ------------------------------------------------------------------ *)

\* frozenDefinitions[role] = permissions: the caller's own array
AliasPermissions(heap, ref) == [heap |-> heap, ref |-> ref]

\* [...permissions] without Object.freeze
UnfrozenCopy(heap, ref) ==
  [heap |-> Append(heap, NewArray(heap[ref].items, FALSE)),
   ref |-> Len(heap) + 1]

\* Object.freeze([...permissions]): a new frozen array with the same items
FrozenCopy(heap, ref) ==
  [heap |-> Append(heap, NewArray(heap[ref].items, TRUE)),
   ref |-> Len(heap) + 1]

\* the loop of defineRoles over Object.keys(definitions), from key i on
RECURSIVE FreezeDefinitions(_, _, _, _)
FreezeDefinitions(definitions, heap, frozenDefinitions, i) ==
  IF i > Len(definitions.props)
  THEN [heap |-> heap, frozenDefinitions |-> frozenDefinitions]
  ELSE LET role == definitions.props[i].key
           permissions == GetProperty(definitions, role)
       IN IF permissions.kind = "array"
          THEN LET c == FrozenCopy(heap, permissions.ref)
               IN FreezeDefinitions(definitions, c.heap,
                    SetProperty(frozenDefinitions, role, ArrayRef(c.ref)), i + 1)
          ELSE FreezeDefinitions(definitions, heap, frozenDefinitions, i + 1)

\* Object.freeze(registry): whether the registry object rejects writes
FreezeRegistry == TRUE

\* defineRoles(definitions): the heap after the copies, the frozen
\* definitions the three methods close over, and the registry object
\* (frozen: Object.freeze was applied; replaced: a caller's write has
\* replaced its methods).
defineRoles(definitions, heap) ==
  LET f == FreezeDefinitions(definitions, heap, EmptyObject, 1)
  IN [heap |-> f.heap,
      frozenDefinitions |-> f.frozenDefinitions,
      registry |-> [frozen |-> FreezeRegistry, replaced |-> FALSE]]

\* createEmptyRegistry()
createEmptyRegistry(heap) == defineRoles(EmptyObject, heap)

\* What a registry method hands back: threw (a TypeError left the call),
\* kind and ref of the value, fresh (the value is a newly made frozen
\* array, whose items are in items), bool for a boolean.
Returned(kind, ref, fresh, items, bool) ==
  [threw |-> FALSE, kind |-> kind, ref |-> ref, fresh |-> fresh,
   items |-> items, bool |-> bool, reason |-> ""]
Thrown ==
  [threw |-> TRUE, kind |-> "TypeError", ref |-> 0, fresh |-> FALSE,
   items |-> <<>>, bool |-> FALSE, reason |-> ""]
ReturnedBoolean(b) == Returned("boolean", 0, FALSE, <<>>, b)

\* what a caller's replacement of a registry method hands back
ReplacedMethod == Returned("array", 0, TRUE, <<WILDCARD_PERMISSION>>, TRUE)

\* registry.getPermissions(role), w the world the registry lives in
getPermissions(w, role) ==
  IF w.registry.replaced THEN ReplacedMethod
  ELSE LET permissions == GetProperty(w.frozenDefinitions, role)
       IN IF permissions.kind # "undefined"
          THEN Returned(permissions.kind, permissions.ref, FALSE,
                        IF permissions.kind = "array"
                        THEN w.heap[permissions.ref].items ELSE <<>>, FALSE)
          ELSE Returned("array", 0, TRUE, <<>>, FALSE)

\* registry.hasRole(role)
hasRole(w, role) ==
  IF w.registry.replaced THEN ReplacedMethod
  ELSE ReturnedBoolean(HasOwnProperty(w.frozenDefinitions, role))

\* registry.getRoleNames()
getRoleNames(w) ==
  IF w.registry.replaced THEN ReplacedMethod
  ELSE Returned("array", 0, TRUE, ObjectKeys(w.frozenDefinitions), FALSE)

(* ------------------------------------------------------------------ *)
(* permission-engine                                                     *)
(* ------------------------------------------------------------------ *)

\* A UserContext argument: kind "null" or "undefined" for no user, else
\* "object"; hasRoles / hasPermissions are false when the optional field
\* is undefined. userId is Undefined or a string value; meta is Undefined
\* or a map value, kept as a sequence of [key, val] pairs.
NullUser ==
  [kind |-> "null", hasPermissions |-> FALSE, permissions |-> <<>>,
   hasRoles |-> FALSE, roles |-> <<>>, userId |-> Undefined, meta |-> Undefined]
UndefinedUser == [NullUser EXCEPT !.kind = "undefined"]
UserContext(hasPermissions, permissions, hasRoles, roles) ==
  [kind |-> "object", hasPermissions |-> hasPermissions,
   permissions |-> permissions, hasRoles |-> hasRoles, roles |-> roles,
   userId |-> Undefined, meta |-> Undefined]

\* a string value and a map value of a user context's optional fields
StringValue(chars) == [kind |-> "string", ref |-> 0, chars |-> chars]
MapValue(pairs) == [kind |-> "object", ref |-> 0, pairs |-> pairs]

\* the same user context with the optional userId and meta set
WithIdentity(user, userId, meta) ==
  [user EXCEPT !.userId = userId, !.meta = meta]

\* for (const permission of rolePermissions): only an array is iterable
IsIterable(value) == value.kind = "array"

\* the loop over user.roles from role i on; threw when getPermissions
\* handed back something for...of cannot iterate
RECURSIVE CollectRolePermissions(_, _, _, _)
CollectRolePermissions(roles, w, permissions, i) ==
  IF i > Len(roles) THEN [threw |-> FALSE, permissions |-> permissions]
  ELSE LET rolePermissions == getPermissions(w, roles[i])
       IN IF ~IsIterable(rolePermissions)
          THEN [threw |-> TRUE, permissions |-> permissions]
          ELSE CollectRolePermissions(roles, w,
                 permissions \cup Range(rolePermissions.items), i + 1)

\* collectUserPermissions that also takes the values of user.meta for
\* permissions
collectUserPermissionsWithMeta(user, w) ==
  IF user.kind # "object" THEN [threw |-> TRUE, permissions |-> {}]
  ELSE LET direct == IF user.hasPermissions THEN Range(user.permissions) ELSE {}
           extra == IF user.meta = Undefined THEN {}
                    ELSE {user.meta.pairs[i].val : i \in 1..Len(user.meta.pairs)}
       IN IF user.hasRoles
          THEN CollectRolePermissions(user.roles, w, direct \cup extra, 1)
          ELSE [threw |-> FALSE, permissions |-> direct \cup extra]

\* user.permissions and user.roles are property reads: on null or
\* undefined they throw a TypeError
collectUserPermissions(user, w) ==
  IF user.kind # "object" THEN [threw |-> TRUE, permissions |-> {}]
  ELSE LET direct == IF user.hasPermissions THEN Range(user.permissions) ELSE {}
       IN IF user.hasRoles
          THEN CollectRolePermissions(user.roles, w, direct, 1)
          ELSE [threw |-> FALSE, permissions |-> direct]

\* `${namespace}.*`
NamespaceWildcard(namespace) == namespace \o <<Dot, "*">>

\* the for loop of hasWildcardAccess at index i (0-based in the source,
\* 1-based here) with the namespace built so far
RECURSIVE NamespaceLoop(_, _, _, _)
NamespaceLoop(permissions, parts, i, namespace) ==
  IF i > Len(parts) - 1 THEN FALSE
  ELSE LET part == parts[i]
           next == IF namespace = <<>> THEN part
                   ELSE namespace \o <<Dot>> \o part
       IN IF NamespaceWildcard(next) \in permissions THEN TRUE
          ELSE NamespaceLoop(permissions, parts, i + 1, next)

hasWildcardAccess(permissions, requested) ==
  IF WILDCARD_PERMISSION \in permissions THEN TRUE
  ELSE NamespaceLoop(permissions, Split(requested), 1, <<>>)

\* user === null alone
NoUserNullOnly(user) == user.kind = "null"

\* no user context
NoUser(user) == user.kind = "null" \/ user.kind = "undefined"

\* permission === "" alone
IsBlankNoTrim(permission) == permission = <<>>

\* permission === "" || permission.trim() === ""
IsBlank(permission) == permission = <<>> \/ Trim(permission) = <<>>

\* canUser(user, permission, registry)
canUser(user, permission, w) ==
  IF NoUser(user) THEN ReturnedBoolean(FALSE)
  ELSE IF IsBlank(permission) THEN ReturnedBoolean(FALSE)
  ELSE LET userPermissions == collectUserPermissions(user, w)
       IN IF userPermissions.threw THEN Thrown
          ELSE IF permission \in userPermissions.permissions
               THEN ReturnedBoolean(TRUE)
          ELSE IF hasWildcardAccess(userPermissions.permissions, permission)
               THEN ReturnedBoolean(TRUE)
          ELSE ReturnedBoolean(FALSE)

\* the for loop of canUserAll from element i on
RECURSIVE AllLoop(_, _, _, _)
AllLoop(user, permissions, w, i) ==
  IF i > Len(permissions) THEN ReturnedBoolean(TRUE)
  ELSE LET r == canUser(user, permissions[i], w)
       IN IF r.threw THEN Thrown
          ELSE IF ~r.bool THEN ReturnedBoolean(FALSE)
          ELSE AllLoop(user, permissions, w, i + 1)

\* canUserAll without its empty-list guard
canUserAllVacuous(user, permissions, w) == AllLoop(user, permissions, w, 1)

canUserAll(user, permissions, w) ==
  IF Len(permissions) = 0 THEN ReturnedBoolean(FALSE)
  ELSE AllLoop(user, permissions, w, 1)

\* the for loop of canUserAny from element i on
RECURSIVE AnyLoop(_, _, _, _)
AnyLoop(user, permissions, w, i) ==
  IF i > Len(permissions) THEN ReturnedBoolean(FALSE)
  ELSE LET r == canUser(user, permissions[i], w)
       IN IF r.threw THEN Thrown
          ELSE IF r.bool THEN ReturnedBoolean(TRUE)
          ELSE AnyLoop(user, permissions, w, i + 1)

\* canUserAny that decides on the first element alone
canUserAnyFirst(user, permissions, w) ==
  IF Len(permissions) = 0 THEN ReturnedBoolean(FALSE)
  ELSE canUser(user, permissions[1], w)

canUserAny(user, permissions, w) ==
  IF Len(permissions) = 0 THEN ReturnedBoolean(FALSE)
  ELSE AnyLoop(user, permissions, w, 1)

\* a frozen PermissionCheckResult {allowed, reason}
CheckResult(allowed, reason) ==
  [threw |-> FALSE, kind |-> "result", ref |-> 0, fresh |-> TRUE,
   items |-> <<>>, bool |-> allowed, reason |-> reason]

\* checkPermission that looks for the exact string alone
checkPermissionExactOnly(user, permission, w) ==
  IF NoUser(user) THEN CheckResult(FALSE, "No user context provided")
  ELSE IF IsBlank(permission) THEN CheckResult(FALSE, "Empty permission requested")
  ELSE LET userPermissions == collectUserPermissions(user, w)
       IN IF userPermissions.threw THEN Thrown
          ELSE IF permission \in userPermissions.permissions
               THEN CheckResult(TRUE, "Permission granted")
          ELSE CheckResult(FALSE, "Permission denied")

\* checkPermission(user, permission, registry)
checkPermission(user, permission, w) ==
  IF NoUser(user) THEN CheckResult(FALSE, "No user context provided")
  ELSE IF IsBlank(permission) THEN CheckResult(FALSE, "Empty permission requested")
  ELSE LET allowed == canUser(user, permission, w)
       IN IF allowed.threw THEN Thrown
          ELSE CheckResult(allowed.bool,
                 IF allowed.bool THEN "Permission granted" ELSE "Permission denied")

(* ------------------------------------------------------------------ *)
(* Inputs                                                                *)
(* ------------------------------------------------------------------ *)

\* longest sequence of caller mutations of the definitions
MaxMutations == 1
\* most items in one decision call: the user's direct permissions, the
\* user's roles and the requested permissions together
MaxInput == 3

\* permission strings a caller holds or requests
PermissionStrings ==
  {<<>>, <<" ">>, <<" ", "a">>, WILDCARD_PERMISSION, <<"a">>,
   <<"a", ".", "*">>, <<"a", ".", "b">>, <<".", "a", ".", "b">>}

\* role names a caller looks up or lists on a user
RoleNames == {RoleAdmin, RoleManager, RoleConstructor, RoleProto}

SeqsUpTo(S, n) == UNION {[1..k -> S] : k \in 0..n}

\* user contexts holding exactly k direct permissions and j roles; an
\* empty list may also be left undefined
UsersOfSize(k, j) ==
  {UserContext(hp, ps, hr, rs) :
     ps \in [1..k -> PermissionStrings], rs \in [1..j -> RoleNames],
     hp \in (IF k = 0 THEN BOOLEAN ELSE {TRUE}),
     hr \in (IF j = 0 THEN BOOLEAN ELSE {TRUE})}

\* user contexts holding at most n roles and direct permissions together
UsersUpTo(n) ==
  {NullUser, UndefinedUser} \cup
  UNION {UsersOfSize(x[1], x[2]) : x \in {y \in (0..n) \X (0..n) : y[1] + y[2] <= n}}

\* Definitions a caller passes to defineRoles: a sequence of entries
\* [key, defined, items]; defined is false for an explicit undefined.
Entry(key, items) == [key |-> key, defined |-> TRUE, items |-> items]
UndefinedEntry(key) == [key |-> key, defined |-> FALSE, items |-> <<>>]

DefinitionPool ==
  {<<>>,
   <<Entry(RoleAdmin, <<WILDCARD_PERMISSION>>),
     Entry(RoleManager, <<<<"a", ".", "*">>, <<"a", ".", "b">>>>)>>,
   <<Entry(RoleProto, <<<<"a">>>>), UndefinedEntry(RoleAdmin),
     Entry(RoleManager, <<WILDCARD_PERMISSION>>)>>}

\* the caller's object literal (or JSON.parse result) for these entries:
\* the arrays go on the heap, the keys become own properties
RECURSIVE MakeDefinitions(_, _, _, _)
MakeDefinitions(entries, h, obj, i) ==
  IF i > Len(entries) THEN [heap |-> h, definitions |-> obj]
  ELSE IF entries[i].defined
       THEN MakeDefinitions(entries,
              Append(h, NewArray(entries[i].items, FALSE)),
              DefineOwnProperty(obj, entries[i].key, ArrayRef(Len(h) + 1)), i + 1)
       ELSE MakeDefinitions(entries, h,
              DefineOwnProperty(obj, entries[i].key, Undefined), i + 1)

(* ------------------------------------------------------------------ *)
(* State                                                                 *)
(* ------------------------------------------------------------------ *)

VARIABLES
  heap,               \* the arrays, by reference
  definitions,        \* the caller's object passed to defineRoles
  frozenDefinitions,  \* what the registry's methods close over
  registry,           \* the registry object
  built,              \* the world as it was when defineRoles returned
  mutations,          \* caller mutations of definitions so far
  call,               \* the last operation: its arguments and what it returned
  tasks,              \* the canUser calls in progress, step by step
  request,            \* the HTTP request an adapter is serving
  render              \* the React tree being rendered

\* no request is being served, nothing is being rendered
NoRequest == [pc |-> "none"]
NoRender == [pc |-> "none"]

vars ==
  <<heap, definitions, frozenDefinitions, registry, built, mutations, call, tasks,
    request, render>>

\* the world the registry's methods run in
World ==
  [heap |-> heap, frozenDefinitions |-> frozenDefinitions, registry |-> registry]

NoReturn == Returned("none", 0, FALSE, <<>>, FALSE)

Call(op, user, permissions, role, ret) ==
  [op |-> op, user |-> user, permissions |-> permissions, role |-> role, ret |-> ret]

\* the state when defineRoles(D) has returned, D made from entries
Constructed(entries) ==
  LET d == MakeDefinitions(entries, <<>>, EmptyObject, 1)
      w == defineRoles(d.definitions, d.heap)
  IN [heap |-> w.heap, definitions |-> d.definitions,
      frozenDefinitions |-> w.frozenDefinitions, registry |-> w.registry]

ConstructedPool == {Constructed(entries) : entries \in DefinitionPool}

\* the state after defineRoles(D) has returned, for each D of the pool
Init ==
  \E c \in ConstructedPool :
    /\ heap = c.heap
    /\ definitions = c.definitions
    /\ frozenDefinitions = c.frozenDefinitions
    /\ registry = c.registry
    /\ built = c
    /\ mutations = 0
    /\ tasks = <<>>
    /\ request = NoRequest
    /\ render = NoRender
    /\ call = Call("defineRoles", NullUser, <<>>, <<>>, NoReturn)

(* ------------------------------------------------------------------ *)
(* Operations on the registry                                            *)
(* ------------------------------------------------------------------ *)

Unchanged ==
  UNCHANGED <<heap, definitions, frozenDefinitions, registry, built, mutations, tasks, request, render>>

GetPermissions ==
  \E role \in RoleNames :
    /\ call' = Call("getPermissions", NullUser, <<>>, role, getPermissions(World, role))
    /\ Unchanged

HasRole ==
  \E role \in RoleNames :
    /\ call' = Call("hasRole", NullUser, <<>>, role, hasRole(World, role))
    /\ Unchanged

GetRoleNames ==
  /\ call' = Call("getRoleNames", NullUser, <<>>, <<>>, getRoleNames(World))
  /\ Unchanged

(* ------------------------------------------------------------------ *)
(* Decision calls                                                        *)
(* ------------------------------------------------------------------ *)

\* users and requests of the decision calls made while the registry is
\* read, written to and its definitions mutated
ProbeUsers == {NullUser} \cup {UserContext(FALSE, <<>>, TRUE, <<r>>) : r \in RoleNames}
ProbeStrings == {<<>>, <<"a", ".", "b">>}
ProbeLists == {<<>>} \cup {<<q>> : q \in ProbeStrings}

CanUser ==
  \E user \in ProbeUsers, permission \in ProbeStrings :
    /\ call' = Call("canUser", user, <<permission>>, <<>>,
                    canUser(user, permission, World))
    /\ Unchanged

CheckPermission ==
  \E user \in ProbeUsers, permission \in ProbeStrings :
    /\ call' = Call("checkPermission", user, <<permission>>, <<>>,
                    checkPermission(user, permission, World))
    /\ Unchanged

CanUserAll ==
  \E user \in ProbeUsers, permissions \in ProbeLists :
    /\ call' = Call("canUserAll", user, permissions, <<>>,
                    canUserAll(user, permissions, World))
    /\ Unchanged

CanUserAny ==
  \E user \in ProbeUsers, permissions \in ProbeLists :
    /\ call' = Call("canUserAny", user, permissions, <<>>,
                    canUserAny(user, permissions, World))
    /\ Unchanged

\* The decision functions applied to the arguments the state holds
\* (call.user, call.permissions), whatever was applied before.
ApplyCanUser ==
  /\ Len(call.permissions) = 1
  /\ call' = [call EXCEPT !.op = "canUser",
                !.ret = canUser(call.user, call.permissions[1], World)]
  /\ Unchanged

ApplyCheckPermission ==
  /\ Len(call.permissions) = 1
  /\ call' = [call EXCEPT !.op = "checkPermission",
                !.ret = checkPermission(call.user, call.permissions[1], World)]
  /\ Unchanged

ApplyCanUserAll ==
  /\ call' = [call EXCEPT !.op = "canUserAll",
                !.ret = canUserAll(call.user, call.permissions, World)]
  /\ Unchanged

ApplyCanUserAny ==
  /\ call' = [call EXCEPT !.op = "canUserAny",
                !.ret = canUserAny(call.user, call.permissions, World)]
  /\ Unchanged

(* ------------------------------------------------------------------ *)
(* What a caller can try on the objects it holds                         *)
(* ------------------------------------------------------------------ *)

\* items after arr.push(p), arr.pop() or arr[0] = p
ArrayWrite(items, kind, p) ==
  IF kind = "push" THEN Append(items, p)
  ELSE IF kind = "pop"
       THEN (IF items = <<>> THEN items ELSE SubSeq(items, 1, Len(items) - 1))
  ELSE IF items = <<>> THEN <<p>> ELSE [items EXCEPT ![1] = p]

WriteKinds == {"push", "pop", "assign"}

\* strings a caller writes into a list
WrittenStrings == {WILDCARD_PERMISSION, <<"a", ".", "b">>}
\* lists a caller assigns to a role key
WrittenLists == {<<>>, <<WILDCARD_PERMISSION>>}

\* registry.getPermissions = ...: a frozen object rejects the write
WriteRegistry ==
  /\ registry' = IF registry.frozen THEN registry
                 ELSE [registry EXCEPT !.replaced = TRUE]
  /\ call' = Call("writeRegistry", NullUser, <<>>, <<>>,
                  IF registry.frozen THEN Thrown ELSE NoReturn)
  /\ UNCHANGED <<heap, definitions, frozenDefinitions, built, mutations, tasks, request, render>>

\* a write to the array the last getPermissions or getRoleNames returned:
\* a frozen array rejects it
WriteReturned ==
  /\ call.op \in {"getPermissions", "getRoleNames"}
  /\ call.ret.kind = "array"
  /\ \E kind \in WriteKinds, p \in WrittenStrings :
       LET rejected == call.ret.fresh \/ heap[call.ret.ref].frozen
       IN /\ heap' = IF rejected THEN heap
                     ELSE [heap EXCEPT ![call.ret.ref].items = ArrayWrite(@, kind, p)]
          /\ call' = Call("writeReturned", NullUser, <<>>, call.role,
                          IF rejected THEN Thrown ELSE NoReturn)
  /\ UNCHANGED <<definitions, frozenDefinitions, registry, built, mutations, tasks, request, render>>

(* ------------------------------------------------------------------ *)
(* Caller mutations of the definitions passed to defineRoles             *)
(* ------------------------------------------------------------------ *)

Mutated == Call("mutate", NullUser, <<>>, <<>>, NoReturn)

\* keys of the caller's definitions that hold an array
ListKeys ==
  {k \in Range(ObjectKeys(definitions)) : GetProperty(definitions, k).kind = "array"}

\* definitions[key] = [...]: a key the object does not have yet
AddRole ==
  /\ mutations < MaxMutations
  /\ \E key \in RoleNames \ Range(ObjectKeys(definitions)), items \in WrittenLists :
       /\ heap' = Append(heap, NewArray(items, FALSE))
       /\ definitions' = SetProperty(definitions, key, ArrayRef(Len(heap) + 1))
  /\ mutations' = mutations + 1
  /\ call' = Mutated
  /\ UNCHANGED <<frozenDefinitions, registry, built, tasks, request, render>>

\* definitions[key] = [...]: a key the object has
ReplaceRole ==
  /\ mutations < MaxMutations
  /\ \E key \in Range(ObjectKeys(definitions)), items \in WrittenLists :
       /\ heap' = Append(heap, NewArray(items, FALSE))
       /\ definitions' = SetProperty(definitions, key, ArrayRef(Len(heap) + 1))
  /\ mutations' = mutations + 1
  /\ call' = Mutated
  /\ UNCHANGED <<frozenDefinitions, registry, built, tasks, request, render>>

\* delete definitions[key]
RemoveRole ==
  /\ mutations < MaxMutations
  /\ \E key \in Range(ObjectKeys(definitions)) :
       definitions' = DeleteProperty(definitions, key)
  /\ mutations' = mutations + 1
  /\ call' = Mutated
  /\ UNCHANGED <<heap, frozenDefinitions, registry, built, tasks, request, render>>

\* a write of the given kind to definitions[key]; a frozen array rejects it
ListWrite(kind) ==
  /\ mutations < MaxMutations
  /\ \E key \in ListKeys, p \in WrittenStrings :
       LET ref == GetProperty(definitions, key).ref
       IN heap' = IF heap[ref].frozen THEN heap
                  ELSE [heap EXCEPT ![ref].items = ArrayWrite(@, kind, p)]
  /\ mutations' = mutations + 1
  /\ call' = Mutated
  /\ UNCHANGED <<definitions, frozenDefinitions, registry, built, tasks, request, render>>

PushPermission == ListWrite("push")
PopPermission == ListWrite("pop")
AssignPermission == ListWrite("assign")

(* ------------------------------------------------------------------ *)
(* Specifications                                                        *)
(* ------------------------------------------------------------------ *)

\* the registry in use: reads, decision calls, caller writes and caller
\* mutations of the definitions, in any order
Next ==
  \/ GetPermissions
  \/ HasRole
  \/ GetRoleNames
  \/ CanUser
  \/ CheckPermission
  \/ CanUserAll
  \/ CanUserAny
  \/ WriteRegistry
  \/ WriteReturned
  \/ AddRole
  \/ ReplaceRole
  \/ RemoveRole
  \/ PushPermission
  \/ PopPermission
  \/ AssignPermission

Spec == Init /\ [][Next]_vars

\* every registry of the pool with every user and requested list of at
\* most MaxInput items together, no decision function applied yet
InitEngine ==
  \E c \in ConstructedPool, permissions \in SeqsUpTo(PermissionStrings, MaxInput) :
    \E user \in UsersUpTo(MaxInput - Len(permissions)) :
      /\ heap = c.heap
      /\ definitions = c.definitions
      /\ frozenDefinitions = c.frozenDefinitions
      /\ registry = c.registry
      /\ built = c
      /\ mutations = 0
      /\ tasks = <<>>
      /\ request = NoRequest
      /\ render = NoRender
      /\ call = Call("input", user, permissions, <<>>, NoReturn)

NextEngine ==
  \/ ApplyCanUser
  \/ ApplyCheckPermission
  \/ ApplyCanUserAll
  \/ ApplyCanUserAny

SpecEngine == InitEngine /\ [][NextEngine]_vars

(* ------------------------------------------------------------------ *)
(* A caller that replaces its user context and rebuilds its registry     *)
(* ------------------------------------------------------------------ *)

MetaTenant == MapValue(<<[key |-> "tenantId", val |-> <<"t">>]>>)
MetaWildcard == MapValue(<<[key |-> "permission", val |-> WILDCARD_PERMISSION]>>)

\* the userId and meta a caller sets on a user context
CallerIdentities ==
  {<<Undefined, Undefined>>, <<StringValue(<<"u">>), MetaTenant>>,
   <<StringValue(RoleAdmin), MetaWildcard>>}

\* the user contexts the caller passes
CallerUsers ==
  {NullUser} \cup
  {WithIdentity(user, id[1], id[2]) :
     user \in {UserContext(FALSE, <<>>, TRUE, <<RoleManager>>),
               UserContext(TRUE, <<<<"a", ".", "b">>>>, TRUE, <<RoleAdmin>>),
               UserContext(TRUE, <<<<"a">>>>, FALSE, <<>>),
               UserContext(FALSE, <<>>, TRUE, <<RoleProto, RoleManager>>)},
     id \in CallerIdentities}

\* the permission lists the caller requests
CallerLists ==
  {<<>>, <<<<"a">>>>, <<<<"a", ".", "b">>>>, <<<<"a", ".", "b">>, <<" ">>>>}

\* the registries the caller holds: the one it built first and the one
\* it built last
Registries == {"first", "last"}

\* every passed registry is the first one: a decision remembered from it
PassedFirst(which) ==
  [heap |-> heap, frozenDefinitions |-> built.frozenDefinitions,
   registry |-> built.registry]

\* the registry argument of a decision call
Passed(which) == IF which = "first" THEN PassedFirst(which) ELSE World

\* the record of a call, with the registry that was passed
CallOn(which, c) == ("registry" :> which) @@ c

InitCaller ==
  \E c \in ConstructedPool, user \in CallerUsers, permissions \in CallerLists :
    /\ heap = c.heap
    /\ definitions = c.definitions
    /\ frozenDefinitions = c.frozenDefinitions
    /\ registry = c.registry
    /\ built = c
    /\ mutations = 0
    /\ tasks = <<>>
    /\ request = NoRequest
    /\ render = NoRender
    /\ call = CallOn("last", Call("input", user, permissions, <<>>, NoReturn))

\* the caller passes another user context from now on
ReplaceUser ==
  /\ \E user \in CallerUsers \ {call.user} :
       call' = [call EXCEPT !.op = "replaceUser", !.user = user, !.ret = NoReturn]
  /\ Unchanged

\* the caller changes its role definitions and builds a new registry with
\* defineRoles; it keeps the first registry it built
DefineRoles ==
  /\ mutations < MaxMutations
  /\ \E entries \in DefinitionPool :
       LET d == MakeDefinitions(entries, heap, EmptyObject, 1)
           w == defineRoles(d.definitions, d.heap)
       IN /\ heap' = w.heap
          /\ definitions' = d.definitions
          /\ frozenDefinitions' = w.frozenDefinitions
          /\ registry' = w.registry
  /\ mutations' = mutations + 1
  /\ call' = [call EXCEPT !.op = "defineRoles", !.ret = NoReturn, !.registry = "last"]
  /\ UNCHANGED <<built, tasks, request, render>>

\* canUser that pushes the request onto the array user.permissions
CallerCanUserAccumulates ==
  /\ Len(call.permissions) = 1
  /\ call.user.kind = "object"
  /\ \E which \in Registries :
       call' = [call EXCEPT
                  !.op = "canUser", !.registry = which,
                  !.user = [@ EXCEPT !.hasPermissions = TRUE,
                              !.permissions = @ \o call.permissions],
                  !.ret = canUser(call.user, call.permissions[1], Passed(which))]
  /\ Unchanged

CallerCanUser ==
  /\ Len(call.permissions) = 1
  /\ \E which \in Registries :
       call' = [call EXCEPT !.op = "canUser", !.registry = which,
                  !.ret = canUser(call.user, call.permissions[1], Passed(which))]
  /\ Unchanged

CallerCheckPermission ==
  /\ Len(call.permissions) = 1
  /\ \E which \in Registries :
       call' = [call EXCEPT !.op = "checkPermission", !.registry = which,
                  !.ret = checkPermission(call.user, call.permissions[1], Passed(which))]
  /\ Unchanged

CallerCanUserAll ==
  /\ \E which \in Registries :
       call' = [call EXCEPT !.op = "canUserAll", !.registry = which,
                  !.ret = canUserAll(call.user, call.permissions, Passed(which))]
  /\ Unchanged

CallerCanUserAny ==
  /\ \E which \in Registries :
       call' = [call EXCEPT !.op = "canUserAny", !.registry = which,
                  !.ret = canUserAny(call.user, call.permissions, Passed(which))]
  /\ Unchanged

NextCaller ==
  \/ ReplaceUser
  \/ DefineRoles
  \/ CallerCanUser
  \/ CallerCheckPermission
  \/ CallerCanUserAll
  \/ CallerCanUserAny

SpecCaller == InitCaller /\ [][NextCaller]_vars

(* ------------------------------------------------------------------ *)
(* canUser calls running at once on one registry                         *)
(* ------------------------------------------------------------------ *)

\* most canUser calls in progress together
MaxTasks == 2

\* the arguments of the calls in progress
ConcurrentUsers ==
  {UserContext(FALSE, <<>>, TRUE, <<RoleAdmin>>),
   UserContext(FALSE, <<>>, TRUE, <<RoleManager>>),
   UserContext(TRUE, <<<<"a">>>>, TRUE, <<RoleProto>>),
   UserContext(TRUE, <<<<"a">>>>, FALSE, <<>>)}
ConcurrentRequests == {<<"a", ".", "b">>, <<"a">>}

\* a call that has not taken a step: its arguments, its position, the
\* Set of collectUserPermissions, the loop index and the namespace of
\* hasWildcardAccess
NewTask(user, permission) ==
  [user |-> user, permission |-> permission, pc |-> "start", i |-> 1,
   userPermissions |-> {}, namespace |-> <<>>, ret |-> NoReturn]

\* permissions.add on one Set that every call shares
AddShared(ts, t, items) ==
  [x \in DOMAIN ts |-> [ts[x] EXCEPT !.userPermissions = @ \cup items]]

\* permissions.add on the Set the call created
Add(ts, t, items) == [ts EXCEPT ![t].userPermissions = @ \cup items]

\* return or throw
Done(ts, t, ret) == [ts EXCEPT ![t].pc = "done", ![t].ret = ret]

\* go on at pc, its loop at the first element
Goto(ts, t, pc) == [ts EXCEPT ![t].pc = pc, ![t].i = 1]

InitConcurrent ==
  \E c \in ConstructedPool,
     inputs \in [1..MaxTasks -> ConcurrentUsers \X ConcurrentRequests] :
    /\ heap = c.heap
    /\ definitions = c.definitions
    /\ frozenDefinitions = c.frozenDefinitions
    /\ registry = c.registry
    /\ built = c
    /\ mutations = 0
    /\ call = Call("input", NullUser, <<>>, <<>>, NoReturn)
    /\ tasks = [t \in 1..MaxTasks |-> NewTask(inputs[t][1], inputs[t][2])]
    /\ request = NoRequest
    /\ render = NoRender

\* a step of a call reads the registry and writes its own locals
TaskFrame ==
  UNCHANGED <<heap, definitions, frozenDefinitions, registry, built, mutations, call,
              request, render>>

\* the two guards of canUser
TaskStart ==
  /\ \E t \in DOMAIN tasks :
       /\ tasks[t].pc = "start"
       /\ tasks' = IF NoUser(tasks[t].user) \/ IsBlank(tasks[t].permission)
                   THEN Done(tasks, t, ReturnedBoolean(FALSE))
                   ELSE Goto(tasks, t, "direct")
  /\ TaskFrame

\* the loop over user.permissions
TaskDirect ==
  /\ \E t \in DOMAIN tasks :
       /\ tasks[t].pc = "direct"
       /\ tasks' = Goto(IF tasks[t].user.hasPermissions
                         THEN Add(tasks, t, Range(tasks[t].user.permissions))
                         ELSE tasks,
                         t, IF tasks[t].user.hasRoles THEN "roles" ELSE "exact")
  /\ TaskFrame

\* one round of the loop over user.roles
TaskRole ==
  /\ \E t \in DOMAIN tasks :
       /\ tasks[t].pc = "roles"
       /\ tasks' =
            IF tasks[t].i > Len(tasks[t].user.roles) THEN Goto(tasks, t, "exact")
            ELSE LET rolePermissions == getPermissions(World, tasks[t].user.roles[tasks[t].i])
                 IN IF ~IsIterable(rolePermissions) THEN Done(tasks, t, Thrown)
                    ELSE [Add(tasks, t, Range(rolePermissions.items))
                            EXCEPT ![t].i = @ + 1]
  /\ TaskFrame

\* userPermissions.has(permission)
TaskExact ==
  /\ \E t \in DOMAIN tasks :
       /\ tasks[t].pc = "exact"
       /\ tasks' = IF tasks[t].permission \in tasks[t].userPermissions
                   THEN Done(tasks, t, ReturnedBoolean(TRUE))
                   ELSE Goto(tasks, t, "global")
  /\ TaskFrame

\* permissions.has(WILDCARD_PERMISSION)
TaskGlobal ==
  /\ \E t \in DOMAIN tasks :
       /\ tasks[t].pc = "global"
       /\ tasks' = IF WILDCARD_PERMISSION \in tasks[t].userPermissions
                   THEN Done(tasks, t, ReturnedBoolean(TRUE))
                   ELSE Goto(tasks, t, "namespace")
  /\ TaskFrame

\* one round of the loop over the parts of the request
TaskNamespace ==
  /\ \E t \in DOMAIN tasks :
       /\ tasks[t].pc = "namespace"
       /\ LET parts == Split(tasks[t].permission)
              namespace == tasks[t].namespace
          IN tasks' =
               IF tasks[t].i > Len(parts) - 1
               THEN Done(tasks, t, ReturnedBoolean(FALSE))
               ELSE LET part == parts[tasks[t].i]
                        next == IF namespace = <<>> THEN part
                                ELSE namespace \o <<Dot>> \o part
                    IN IF NamespaceWildcard(next) \in tasks[t].userPermissions
                       THEN Done(tasks, t, ReturnedBoolean(TRUE))
                       ELSE [tasks EXCEPT ![t].i = @ + 1, ![t].namespace = next]
  /\ TaskFrame

NextConcurrent ==
  \/ TaskStart
  \/ TaskDirect
  \/ TaskRole
  \/ TaskExact
  \/ TaskGlobal
  \/ TaskNamespace

SpecConcurrent == InitConcurrent /\ [][NextConcurrent]_vars

(* ------------------------------------------------------------------ *)
(* Adapters: Express middleware and Next.js wrappers                     *)
(* ------------------------------------------------------------------ *)

Forbidden == <<"F", "o", "r", "b", "i", "d", "d", "e", "n">>

\* a number; a key that an options object does not have
NumberValue(n) == [kind |-> "number", ref |-> 0, n |-> n]
Absent == [kind |-> "absent", ref |-> 0]

\* an options object: each key is Absent, Undefined or a value
Options(statusCode, message) == [statusCode |-> statusCode, message |-> message]

DEFAULT_OPTIONS == Options(NumberValue(403), StringValue(Forbidden))

\* { ...DEFAULT_OPTIONS, ...options }: every own key of options, whatever
\* its value, replaces the default
SpreadOptions(defaults, options) ==
  [f \in DOMAIN defaults |-> IF options[f] = Absent THEN defaults[f] ELSE options[f]]

\* options.statusCode ?? 403, options.message ?? "Forbidden": the default
\* stands in for a missing key, for undefined and for null
NullishOptions(defaults, options) ==
  [f \in DOMAIN defaults |->
     IF options[f].kind \in {"absent", "undefined", "null"} THEN defaults[f]
     ELSE options[f]]

\* the response of a denial: status and JSON body {error: message}
DenialResponse(opts) == [status |-> opts.statusCode, body |-> [error |-> opts.message]]

\* a request as it reaches an adapter built at registration time with the
\* permissions and options; getUser will give user (a Next.js getUser may
\* reject instead)
NewRequest(adapter, permissions, options, user, rejects) ==
  [adapter |-> adapter, permissions |-> permissions, options |-> options,
   user |-> user, rejects |-> rejects, pc |-> "received",
   nextCalls |-> 0, responses |-> <<>>, handlerCalls |-> 0,
   handlerUser |-> Undefined, threw |-> FALSE]

\* the body of an Express middleware once the core function has run
ExpressMiddleware(req, allowed, opts) ==
  IF allowed.threw THEN [req EXCEPT !.pc = "done", !.threw = TRUE]
  ELSE IF allowed.bool THEN [req EXCEPT !.pc = "done", !.nextCalls = @ + 1]
  ELSE [req EXCEPT !.pc = "done", !.responses = Append(@, DenialResponse(opts))]

\* the registry and the rest stay as they are while a request is served
RequestFrame ==
  UNCHANGED <<heap, definitions, frozenDefinitions, registry, built, mutations, call,
              tasks, render>>

RequirePermission ==
  /\ request.pc = "received"
  /\ request.adapter = "requirePermission"
  /\ request' = ExpressMiddleware(request,
                  canUser(request.user, request.permissions[1], World),
                  SpreadOptions(DEFAULT_OPTIONS, request.options))
  /\ RequestFrame

RequireAllPermissions ==
  /\ request.pc = "received"
  /\ request.adapter = "requireAllPermissions"
  /\ request' = ExpressMiddleware(request,
                  canUserAll(request.user, request.permissions, World),
                  SpreadOptions(DEFAULT_OPTIONS, request.options))
  /\ RequestFrame

RequireAnyPermission ==
  /\ request.pc = "received"
  /\ request.adapter = "requireAnyPermission"
  /\ request' = ExpressMiddleware(request,
                  canUserAny(request.user, request.permissions, World),
                  SpreadOptions(DEFAULT_OPTIONS, request.options))
  /\ RequestFrame

\* the wrapper has called options.getUser(request) and awaits it
WrapperCalled ==
  /\ request.pc = "received"
  /\ request.adapter \in {"withPermission", "withAllPermissions", "withAnyPermission"}
  /\ request' = [request EXCEPT !.pc = "awaiting"]
  /\ RequestFrame

\* the awaited getUser resolves: the wrapper goes on with the user
GetUserResolves ==
  /\ request.pc = "awaiting"
  /\ ~request.rejects
  /\ request' = [request EXCEPT !.pc = "resolved"]
  /\ RequestFrame

\* the awaited getUser rejects: the wrapper's promise rejects
GetUserRejects ==
  /\ request.pc = "awaiting"
  /\ request.rejects
  /\ request' = [request EXCEPT !.pc = "done", !.threw = TRUE]
  /\ RequestFrame

\* a guard that looks at the user alone
DeniedNullOnly(user, allowed) == user.kind = "null"

\* user === null || !canUser(user, permission, registry), the core
\* function having returned
Denied(user, allowed) == user.kind = "null" \/ ~allowed.bool

\* the body of a Next.js wrapper after the await; allowed is what the core
\* function gives, which runs only for a user that is not null
NextWrapper(req, allowed, opts) ==
  IF req.user.kind # "null" /\ allowed.threw
  THEN [req EXCEPT !.pc = "done", !.threw = TRUE]
  ELSE IF Denied(req.user, allowed)
  THEN [req EXCEPT !.pc = "done", !.responses = Append(@, DenialResponse(opts))]
  ELSE [req EXCEPT !.pc = "done", !.handlerCalls = @ + 1, !.handlerUser = req.user]

WithPermission ==
  /\ request.pc = "resolved"
  /\ request.adapter = "withPermission"
  /\ request' = NextWrapper(request,
                  canUser(request.user, request.permissions[1], World),
                  NullishOptions(DEFAULT_OPTIONS, request.options))
  /\ RequestFrame

WithAllPermissions ==
  /\ request.pc = "resolved"
  /\ request.adapter = "withAllPermissions"
  /\ request' = NextWrapper(request,
                  canUserAll(request.user, request.permissions, World),
                  NullishOptions(DEFAULT_OPTIONS, request.options))
  /\ RequestFrame

WithAnyPermission ==
  /\ request.pc = "resolved"
  /\ request.adapter = "withAnyPermission"
  /\ request' = NextWrapper(request,
                  canUserAny(request.user, request.permissions, World),
                  NullishOptions(DEFAULT_OPTIONS, request.options))
  /\ RequestFrame

ExpressAdapters == {"requirePermission", "requireAllPermissions", "requireAnyPermission"}
NextAdapters == {"withPermission", "withAllPermissions", "withAnyPermission"}
SinglePermissionAdapters == {"requirePermission", "withPermission"}

\* what getUser gives, the permissions and the options of the adapters
\* that are registered
AdapterUsers ==
  {NullUser, UndefinedUser,
   UserContext(FALSE, <<>>, TRUE, <<RoleManager>>),
   UserContext(TRUE, <<<<"a">>>>, FALSE, <<>>),
   UserContext(TRUE, <<<<"a", ".", "b">>>>, TRUE, <<RoleConstructor>>)}
AdapterLists ==
  {<<>>, <<<<"a", ".", "b">>>>, <<<<"a">>>>, <<<<"a", ".", "b">>, <<"a">>>>}
AdapterOptions ==
  {Options(s, m) : s \in {Absent, Undefined, NumberValue(401)},
                   m \in {Absent, Undefined, StringValue(<<"N", "o">>)}}

InitAdapters ==
  \E c \in ConstructedPool, adapter \in ExpressAdapters \cup NextAdapters,
     permissions \in AdapterLists, options \in AdapterOptions,
     user \in AdapterUsers, rejects \in BOOLEAN :
    /\ adapter \in SinglePermissionAdapters => Len(permissions) = 1
    /\ rejects => adapter \in NextAdapters
    /\ heap = c.heap
    /\ definitions = c.definitions
    /\ frozenDefinitions = c.frozenDefinitions
    /\ registry = c.registry
    /\ built = c
    /\ mutations = 0
    /\ call = Call("input", NullUser, <<>>, <<>>, NoReturn)
    /\ tasks = <<>>
    /\ request = NewRequest(adapter, permissions, options, user, rejects)
    /\ render = NoRender

NextOfAdapters ==
  \/ RequirePermission
  \/ RequireAllPermissions
  \/ RequireAnyPermission
  \/ WrapperCalled
  \/ GetUserResolves
  \/ GetUserRejects
  \/ WithPermission
  \/ WithAllPermissions
  \/ WithAnyPermission

SpecAdapters == InitAdapters /\ [][NextOfAdapters]_vars

(* ------------------------------------------------------------------ *)
(* React: context, hooks, Can and Cannot                                 *)
(* ------------------------------------------------------------------ *)

\* the context value a PermissionProvider makes from its user prop (its
\* registry prop is the registry of the state)
PermissionProvider(user) == [provided |-> TRUE, user |-> user]

\* the context value where no PermissionProvider is present
defaultContextValue == [provided |-> FALSE, user |-> NullUser]

\* can of a default context that allows
ContextCanAllows(context, permission, w) ==
  IF context.provided THEN canUser(context.user, permission, w)
  ELSE ReturnedBoolean(TRUE)

\* context.can, context.canAll, context.canAny
ContextCan(context, permission, w) ==
  IF context.provided THEN canUser(context.user, permission, w)
  ELSE ReturnedBoolean(FALSE)
ContextCanAll(context, permissions, w) ==
  IF context.provided THEN canUserAll(context.user, permissions, w)
  ELSE ReturnedBoolean(FALSE)
ContextCanAny(context, permissions, w) ==
  IF context.provided THEN canUserAny(context.user, permissions, w)
  ELSE ReturnedBoolean(FALSE)

\* context.registry.getPermissions, hasRole, getRoleNames
ContextGetPermissions(context, role, w) ==
  IF context.provided THEN getPermissions(w, role)
  ELSE Returned("array", 0, TRUE, <<>>, FALSE)
ContextHasRole(context, role, w) ==
  IF context.provided THEN hasRole(w, role) ELSE ReturnedBoolean(FALSE)
ContextGetRoleNames(context, w) ==
  IF context.provided THEN getRoleNames(w)
  ELSE Returned("array", 0, TRUE, <<>>, FALSE)

useCan(context, permission, w) == ContextCan(context, permission, w)
useCanAll(context, permissions, w) == ContextCanAll(context, permissions, w)
useCanAny(context, permissions, w) == ContextCanAny(context, permissions, w)
useUser(context) == context.user

\* the props of Can and Cannot: permission and permissions may be
\* undefined (hasPermission, hasPermissions false), anyOf is Undefined or
\* a boolean, fallback may be missing (Cannot has none)
BoolValue(b) == [kind |-> "boolean", ref |-> 0, bool |-> b]
Props(hasPermission, permission, hasPermissions, permissions, anyOf, hasFallback) ==
  [hasPermission |-> hasPermission, permission |-> permission,
   hasPermissions |-> hasPermissions, permissions |-> permissions,
   anyOf |-> anyOf, hasFallback |-> hasFallback]

\* anyOf = false in the parameter list
AnyOfDefault(anyOf) == IF anyOf.kind = "undefined" THEN FALSE ELSE anyOf.bool

\* fallback = null in the parameter list
FallbackDefault(props) == IF props.hasFallback THEN "fallback" ELSE "null"

\* what a component returned, or that rendering threw
Rendered(node) == [threw |-> FALSE, node |-> node]
RenderThrew == [threw |-> TRUE, node |-> "none"]

\* allowed ? shown : hidden
Choose(allowed, shown, hidden) ==
  IF allowed.threw THEN RenderThrew
  ELSE Rendered(IF allowed.bool THEN shown ELSE hidden)

\* Can that shows where nothing is to be checked
CanShowsByDefault(props, context, w) ==
  IF props.hasPermission
  THEN Choose(useCan(context, props.permission, w), "children", FallbackDefault(props))
  ELSE IF props.hasPermissions /\ Len(props.permissions) > 0
  THEN Choose(IF AnyOfDefault(props.anyOf)
              THEN useCanAny(context, props.permissions, w)
              ELSE useCanAll(context, props.permissions, w),
              "children", FallbackDefault(props))
  ELSE Rendered("children")

\* Can that looks at the permissions list first
CanListFirst(props, context, w) ==
  IF props.hasPermissions /\ Len(props.permissions) > 0
  THEN Choose(IF AnyOfDefault(props.anyOf)
              THEN useCanAny(context, props.permissions, w)
              ELSE useCanAll(context, props.permissions, w),
              "children", FallbackDefault(props))
  ELSE IF props.hasPermission
  THEN Choose(useCan(context, props.permission, w), "children", FallbackDefault(props))
  ELSE Rendered(FallbackDefault(props))

Can(props, context, w) ==
  IF props.hasPermission
  THEN Choose(useCan(context, props.permission, w), "children", FallbackDefault(props))
  ELSE IF props.hasPermissions /\ Len(props.permissions) > 0
  THEN Choose(IF AnyOfDefault(props.anyOf)
              THEN useCanAny(context, props.permissions, w)
              ELSE useCanAll(context, props.permissions, w),
              "children", FallbackDefault(props))
  ELSE Rendered(FallbackDefault(props))

Cannot(props, context, w) ==
  IF props.hasPermission
  THEN Choose(useCan(context, props.permission, w), "null", "children")
  ELSE IF props.hasPermissions /\ Len(props.permissions) > 0
  THEN Choose(IF AnyOfDefault(props.anyOf)
              THEN useCanAny(context, props.permissions, w)
              ELSE useCanAll(context, props.permissions, w),
              "null", "children")
  ELSE Rendered("children")

\* a tree about to be rendered: the context its components read and the
\* props they are given
Mounted(context, props) ==
  [pc |-> "mounted", context |-> context, props |-> props,
   component |-> "none", output |-> Rendered("none")]

\* rendering reads the context and writes nothing
RenderFrame ==
  UNCHANGED <<heap, definitions, frozenDefinitions, registry, built, mutations, call,
              tasks, request>>

RenderCan ==
  /\ render.pc # "none"
  /\ render' = [render EXCEPT !.pc = "rendered", !.component = "Can",
                  !.output = Can(render.props, render.context, World)]
  /\ RenderFrame

RenderCannot ==
  /\ render.pc # "none"
  /\ render' = [render EXCEPT !.pc = "rendered", !.component = "Cannot",
                  !.output = Cannot(render.props, render.context, World)]
  /\ RenderFrame

\* a component that calls the hook with the permission of its props
UseCan ==
  /\ render.pc # "none"
  /\ render.props.hasPermission
  /\ render' = [render EXCEPT !.pc = "rendered", !.component = "useCan",
                  !.output = useCan(render.context, render.props.permission, World)]
  /\ RenderFrame

UseCanAll ==
  /\ render.pc # "none"
  /\ render.props.hasPermissions
  /\ render' = [render EXCEPT !.pc = "rendered", !.component = "useCanAll",
                  !.output = useCanAll(render.context, render.props.permissions, World)]
  /\ RenderFrame

UseCanAny ==
  /\ render.pc # "none"
  /\ render.props.hasPermissions
  /\ render' = [render EXCEPT !.pc = "rendered", !.component = "useCanAny",
                  !.output = useCanAny(render.context, render.props.permissions, World)]
  /\ RenderFrame

\* the users of the provider and the props of the components
ReactUsers ==
  {NullUser,
   UserContext(TRUE, <<WILDCARD_PERMISSION>>, FALSE, <<>>),
   UserContext(FALSE, <<>>, TRUE, <<RoleManager>>),
   UserContext(TRUE, <<<<"a">>>>, FALSE, <<>>),
   UserContext(TRUE, <<<<"a", ".", "b">>>>, TRUE, <<RoleConstructor>>)}
ReactProps ==
  {Props(hp, p, hps, ps, anyOf, hf) :
     hp \in BOOLEAN, p \in {<<>>, <<"a">>, <<"a", ".", "b">>},
     hps \in BOOLEAN, ps \in {<<>>, <<<<"a">>>>, <<<<"a", ".", "b">>, <<"a">>>>},
     anyOf \in {Undefined, BoolValue(TRUE), BoolValue(FALSE)}, hf \in BOOLEAN}

InitReact ==
  \E c \in ConstructedPool, user \in ReactUsers, provided \in BOOLEAN,
     props \in ReactProps :
    /\ ~provided => user = NullUser
    /\ ~props.hasPermission => props.permission = <<>>
    /\ ~props.hasPermissions => props.permissions = <<>>
    /\ heap = c.heap
    /\ definitions = c.definitions
    /\ frozenDefinitions = c.frozenDefinitions
    /\ registry = c.registry
    /\ built = c
    /\ mutations = 0
    /\ call = Call("input", NullUser, <<>>, <<>>, NoReturn)
    /\ tasks = <<>>
    /\ request = NoRequest
    /\ render = Mounted(IF provided THEN PermissionProvider(user)
                        ELSE defaultContextValue, props)

NextReact ==
  \/ RenderCan
  \/ RenderCannot
  \/ UseCan
  \/ UseCanAll
  \/ UseCanAny

SpecReact == InitReact /\ [][NextReact]_vars

(* ------------------------------------------------------------------ *)
(* Properties                                                            *)
(* ------------------------------------------------------------------ *)

DecisionOps == {"canUser", "canUserAll", "canUserAny", "checkPermission"}

\* the call returned true
ReturnedTrue(ret) == ~ret.threw /\ ret.bool
\* the call returned false
ReturnedFalse(ret) == ~ret.threw /\ ~ret.bool

\* a string with no character other than whitespace (the empty one included)
OnlyWhitespace(q) == \A i \in 1..Len(q) : q[i] \in Whitespace

\* segments joined by "."
RECURSIVE JoinDots(_)
JoinDots(parts) ==
  IF Len(parts) = 0 THEN <<>>
  ELSE IF Len(parts) = 1 THEN parts[1]
  ELSE parts[1] \o <<Dot>> \o JoinDots(Tail(parts))

StartsWith(q, prefix) ==
  Len(prefix) <= Len(q) /\ SubSeq(q, 1, Len(prefix)) = prefix

\* the user's direct permissions and the permissions the registry holds
\* for each role of the user
EffectiveSet(user, w) ==
  (IF user.hasPermissions THEN Range(user.permissions) ELSE {}) \cup
  (IF user.hasRoles
   THEN UNION {LET r == getPermissions(w, user.roles[i])
               IN IF r.kind = "array" THEN Range(r.items) ELSE {} :
               i \in 1..Len(user.roles)}
   ELSE {})

\* the reference wildcard algorithm: exact match, global wildcard, or a
\* proper non-empty prefix of the segments joined by "." and followed by ".*"
ReferenceGrants(E, requested) ==
  \/ requested \in E
  \/ WILDCARD_PERMISSION \in E
  \/ \E k \in 1..(Len(Split(requested)) - 1) :
       (JoinDots(SubSeq(Split(requested), 1, k)) \o <<Dot, "*">>) \in E

\* C1: for a non-null user and a request that is not blank, canUser returns
\* true exactly when the reference wildcard algorithm grants the request
\* from the user's effective permission set.
C1_CanUserIsReference ==
  (/\ call.op = "canUser"
   /\ ~NoUser(call.user)
   /\ ~OnlyWhitespace(call.permissions[1])
   /\ ~call.ret.threw)
  => (call.ret.bool <=>
        ReferenceGrants(EffectiveSet(call.user, World), call.permissions[1]))

\* C2: whenever canUser returns true, the effective set holds the request
\* itself, or "*", or some N.* such that the request starts with "N.".
C2_WildcardOnlyUnderPrefix ==
  (call.op = "canUser" /\ ReturnedTrue(call.ret))
  => LET E == EffectiveSet(call.user, World)
         p == call.permissions[1]
     IN \/ p \in E
        \/ WILDCARD_PERMISSION \in E
        \/ \E h \in E :
             /\ Len(h) >= 2
             /\ SubSeq(h, Len(h) - 1, Len(h)) = <<Dot, "*">>
             /\ StartsWith(p, SubSeq(h, 1, Len(h) - 1))

\* C3: canUser returns false when the user is null or undefined, whatever
\* the permission and the registry.
C3_NoUserDenied ==
  (call.op = "canUser" /\ call.user.kind \in {"null", "undefined"})
  => ReturnedFalse(call.ret)

\* every role of the registry holds "*"
EveryRoleHoldsWildcard ==
  /\ ObjectKeys(frozenDefinitions) # <<>>
  /\ \A k \in Range(ObjectKeys(frozenDefinitions)) :
       WILDCARD_PERMISSION \in Range(getPermissions(World, k).items)

C3_Witness ==
  /\ call.op = "canUser"
  /\ call.user.kind = "null"
  /\ call.permissions = <<WILDCARD_PERMISSION>>
  /\ EveryRoleHoldsWildcard
  /\ ReturnedFalse(call.ret)

\* C4: canUser returns false when the requested permission is empty or
\* only whitespace, whatever the user holds.
C4_BlankDenied ==
  (call.op = "canUser" /\ OnlyWhitespace(call.permissions[1]))
  => ReturnedFalse(call.ret)

C4_Witness ==
  /\ call.op = "canUser"
  /\ call.permissions = <<<<" ">>>>
  /\ call.user.kind = "object"
  /\ {WILDCARD_PERMISSION, <<" ">>} \subseteq Range(call.user.permissions)
  /\ ReturnedFalse(call.ret)

\* role names that are keys of the definitions the registry was built
\* from, with a defined entry
DefinedKeys ==
  {k \in Range(ObjectKeys(built.definitions)) :
     GetProperty(built.definitions, k).kind # "undefined"}

\* the user without the roles that are no key of the definitions
WithoutUnknownRoles(user) ==
  [user EXCEPT !.roles = SelectSeq(user.roles, LAMBDA r : r \in DefinedKeys)]

\* C5: a decision call never throws, and a role listed on the user that is
\* no key of the definitions contributes nothing to the decision.
C5_UnknownRoleNeverThrows ==
  (call.op \in DecisionOps)
  => /\ ~call.ret.threw
     /\ call.op = "canUser" =>
          call.ret = canUser(WithoutUnknownRoles(call.user), call.permissions[1], World)
     /\ call.op = "checkPermission" =>
          call.ret = checkPermission(WithoutUnknownRoles(call.user), call.permissions[1], World)
     /\ call.op = "canUserAll" =>
          call.ret = canUserAll(WithoutUnknownRoles(call.user), call.permissions, World)
     /\ call.op = "canUserAny" =>
          call.ret = canUserAny(WithoutUnknownRoles(call.user), call.permissions, World)

\* C6: for a role name that is no key of the definitions (or whose entry is
\* undefined), getPermissions returns an empty sequence and hasRole false.
C6_AbsentRoleIsEmpty ==
  (call.op = "getPermissions" /\ call.role \notin DefinedKeys)
  => /\ ~call.ret.threw
     /\ call.ret.kind = "array"
     /\ call.ret.items = <<>>
     /\ ReturnedFalse(hasRole(World, call.role))

\* C7: whatever the caller does to the definitions it passed to
\* defineRoles, or to the lists inside them, getPermissions, hasRole,
\* getRoleNames and canUser answer as they did when defineRoles returned.
C7_DefensiveCopy ==
  /\ \A r \in RoleNames :
       /\ getPermissions(World, r) = getPermissions(built, r)
       /\ hasRole(World, r) = hasRole(built, r)
  /\ getRoleNames(World) = getRoleNames(built)
  /\ \A user \in ProbeUsers, permission \in PermissionStrings :
       canUser(user, permission, World) = canUser(user, permission, built)

\* the lists of the caller's definitions, by key
DefinitionLists(h, d) ==
  [k \in {x \in Range(ObjectKeys(d)) : GetProperty(d, x).kind = "array"} |->
     h[GetProperty(d, k).ref].items]

\* the caller has changed the definitions or a list inside them
C7_Witness ==
  /\ mutations > 0
  /\ DefinitionLists(heap, definitions) # DefinitionLists(built.heap, built.definitions)
  /\ ObjectKeys(frozenDefinitions) # <<>>

\* the roles the registry stores and the permissions stored for each
StoredRoles(w) ==
  [k \in Range(ObjectKeys(w.frozenDefinitions)) |->
     w.heap[GetProperty(w.frozenDefinitions, k).ref].items]

\* C8: after any reads, decision calls and attempted writes to the registry
\* object or to a sequence it returned, the registry has the roles and the
\* permissions it was constructed with.
C8_RegistryImmutable ==
  /\ registry = built.registry
  /\ frozenDefinitions = built.frozenDefinitions
  /\ StoredRoles(World) = StoredRoles(built)

\* a write to the stored list of a role was tried
C8_Witness ==
  /\ call.op = "writeReturned"
  /\ HasOwnProperty(frozenDefinitions, call.role)
  /\ call.ret.threw

\* C9: canUserAll returns true exactly when the list is not empty and
\* canUser returns true for each of its elements; on the empty list it
\* returns false.
C9_AllIsEvery ==
  (call.op = "canUserAll")
  => /\ ReturnedTrue(call.ret) <=>
          /\ Len(call.permissions) > 0
          /\ \A i \in 1..Len(call.permissions) :
               ReturnedTrue(canUser(call.user, call.permissions[i], World))
     /\ Len(call.permissions) = 0 => ReturnedFalse(call.ret)

C9_Witness ==
  /\ call.op = "canUserAll"
  /\ Len(call.permissions) = 2
  /\ call.permissions[1] # call.permissions[2]
  /\ ReturnedTrue(call.ret)

\* C10: canUserAny returns true exactly when canUser returns true for at
\* least one element of the list; on the empty list it returns false.
C10_AnyIsSome ==
  (call.op = "canUserAny")
  => /\ ReturnedTrue(call.ret) <=>
          \E i \in 1..Len(call.permissions) :
            ReturnedTrue(canUser(call.user, call.permissions[i], World))
     /\ Len(call.permissions) = 0 => ReturnedFalse(call.ret)

\* a blank element first, a granted one after it
C10_Witness ==
  /\ call.op = "canUserAny"
  /\ Len(call.permissions) = 2
  /\ OnlyWhitespace(call.permissions[1])
  /\ ReturnedTrue(call.ret)

\* C11: for every user (null and undefined included), every permission
\* (blank included) and every registry, checkPermission ends as canUser
\* does on the same arguments, and when they return, allowed equals what
\* canUser returned.
C11_CheckPermissionIsCanUser ==
  (call.op = "checkPermission")
  => LET allowed == canUser(call.user, call.permissions[1], World)
     IN /\ call.ret.threw = allowed.threw
        /\ ~allowed.threw => (call.ret.kind = "result" /\ call.ret.bool = allowed.bool)

\* allowed through a wildcard, the request itself not held
C11_Witness ==
  /\ call.op = "checkPermission"
  /\ call.user.kind = "object"
  /\ call.permissions[1] \notin EffectiveSet(call.user, World)
  /\ call.ret.kind = "result"
  /\ call.ret.bool

\* a sequence that holds no element twice
NoDuplicates(s) == \A i, j \in 1..Len(s) : s[i] = s[j] => i = j

\* C12: getRoleNames of defineRoles(D) holds exactly the keys of D whose
\* entry is not undefined, each once, and hasRole(k) is true exactly for
\* those keys.
C12_RoleNamesRoundTrip ==
  (call.op = "getRoleNames")
  => /\ ~call.ret.threw
     /\ NoDuplicates(call.ret.items)
     /\ Range(call.ret.items) = DefinedKeys
     /\ \A k \in RoleNames : ReturnedTrue(hasRole(World, k)) <=> k \in DefinedKeys

\* C13: a user (not null, not undefined) whose effective set holds "*",
\* through a role or through a direct permission, is granted every request
\* that is not blank, whatever else the user holds.
C13_GlobalWildcardGrantsAll ==
  (/\ call.op = "canUser"
   /\ ~NoUser(call.user)
   /\ WILDCARD_PERMISSION \in EffectiveSet(call.user, World)
   /\ ~OnlyWhitespace(call.permissions[1]))
  => ReturnedTrue(call.ret)

\* the user names no role, or only roles the registry does not have
OnlyUnknownRoles(user, w) ==
  user.hasRoles => \A i \in 1..Len(user.roles) : ReturnedFalse(hasRole(w, user.roles[i]))

\* the user's direct permissions
DirectSet(user) == IF user.hasPermissions THEN Range(user.permissions) ELSE {}

\* C14: for a user with direct permissions P and no roles, or only roles
\* the registry does not have, on any registry (the empty one included),
\* canUser returns, and returns true exactly for the requests that the
\* reference wildcard algorithm grants from P alone.
C14_DirectPermissionsAlone ==
  (/\ call.op = "canUser"
   /\ ~NoUser(call.user)
   /\ OnlyUnknownRoles(call.user, World)
   /\ ~OnlyWhitespace(call.permissions[1]))
  => /\ ~call.ret.threw
     /\ call.ret.bool <=> ReferenceGrants(DirectSet(call.user), call.permissions[1])

\* what a decision function returns on these arguments
Decide(op, user, permissions, w) ==
  CASE op = "canUser" -> canUser(user, permissions[1], w)
    [] op = "checkPermission" -> checkPermission(user, permissions[1], w)
    [] op = "canUserAll" -> canUserAll(user, permissions, w)
    [] op = "canUserAny" -> canUserAny(user, permissions, w)

\* the last call made once more, with the same arguments
Repeated == Decide(call.op, call.user, call.permissions, Passed(call.registry))

C16_ConcurrentCallsAgree ==
  /\ \A t \in DOMAIN tasks :
       tasks[t].pc = "done"
       => tasks[t].ret = canUser(tasks[t].user, tasks[t].permission, World)
  /\ heap = built.heap
  /\ frozenDefinitions = built.frozenDefinitions
  /\ registry = built.registry

\* a call has been denied while another, in progress, has collected "*"
C16_Witness ==
  \E t, u \in DOMAIN tasks :
    /\ tasks[t].pc = "done"
    /\ ReturnedFalse(tasks[t].ret)
    /\ tasks[u].pc = "exact"
    /\ WILDCARD_PERMISSION \in tasks[u].userPermissions

EndsWith(q, suffix) ==
  Len(suffix) <= Len(q) /\ SubSeq(q, Len(q) - Len(suffix) + 1, Len(q)) = suffix

\* a held string that is "*" or ends with ".*"
IsWildcard(h) == h = WILDCARD_PERMISSION \/ EndsWith(h, <<Dot, "*">>)

\* C17: a held string that is not "*" and does not end with ".*" grants
\* the request equal to it, character by character, and no other request:
\* canUser returns true for a held string of that kind, and when it
\* returns true for a request that is not held, a held string is "*" or
\* ends with ".*".
C17_LiteralMatchingOnly ==
  (call.op = "canUser" /\ ~NoUser(call.user))
  => LET E == EffectiveSet(call.user, World)
         p == call.permissions[1]
     IN /\ (p \in E /\ ~IsWildcard(p)) => ReturnedTrue(call.ret)
        /\ (ReturnedTrue(call.ret) /\ p \notin E) => \E h \in E : IsWildcard(h)

\* the list the definitions hold for a role name, as a set; empty for a
\* name that is no key of the definitions
DefinitionList(role) ==
  IF role \in DefinedKeys
  THEN Range(built.heap[GetProperty(built.definitions, role).ref].items)
  ELSE {}

\* the lists of the roles named on the user, and of no other role
NamedRoleLists(user) ==
  IF user.hasRoles
  THEN UNION {DefinitionList(user.roles[i]) : i \in 1..Len(user.roles)}
  ELSE {}

\* C18: the effective permission set a decision call collects is exactly
\* the union of the user's direct permissions and the lists of the roles
\* named on the user; a string in it that equals a role's name brings
\* nothing of that role.
C18_NoRoleInheritance ==
  (call.op \in DecisionOps /\ ~NoUser(call.user))
  => LET collected == collectUserPermissions(call.user, World)
     IN /\ ~collected.threw
        /\ collected.permissions = DirectSet(call.user) \cup NamedRoleLists(call.user)

\* a registry built anew by defineRoles from the definitions the passed
\* registry was built from
BuiltAnew(which) ==
  IF which = "first" THEN defineRoles(built.definitions, built.heap)
  ELSE defineRoles(definitions, heap)

C20_IdentityIgnored ==
  (call.op \in DecisionOps /\ call.user.kind = "object")
  => \A id \in CallerIdentities :
       Decide(call.op, WithIdentity(call.user, id[1], id[2]), call.permissions,
              Passed(call.registry)) = call.ret

\* a user whose meta names "*" and whose userId is a role that holds "*"
\* is denied
C20_Witness ==
  /\ call.op \in DecisionOps
  /\ call.user.kind = "object"
  /\ call.user.meta = MetaWildcard
  /\ call.user.userId = StringValue(RoleAdmin)
  /\ WILDCARD_PERMISSION \in Range(getPermissions(Passed(call.registry), RoleAdmin).items)
  /\ Len(call.permissions) = 1
  /\ ~OnlyWhitespace(call.permissions[1])
  /\ ReturnedFalse(call.ret)

\* what the core function of the adapter gives for the request
CoreOp(adapter) ==
  CASE adapter \in {"requirePermission", "withPermission"} -> "canUser"
    [] adapter \in {"requireAllPermissions", "withAllPermissions"} -> "canUserAll"
    [] adapter \in {"requireAnyPermission", "withAnyPermission"} -> "canUserAny"
CoreResult ==
  Decide(CoreOp(request.adapter), request.user, request.permissions, World)

\* C21: an Express middleware that has served a request has called next()
\* exactly once and sent no response when the core function on the user
\* given by getUser is true, and otherwise has sent exactly one response
\* and has not called next(); it has never done both or neither.
C21_ExpressOneOutcome ==
  (request.pc = "done" /\ request.adapter \in ExpressAdapters)
  => IF ReturnedTrue(CoreResult)
     THEN request.nextCalls = 1 /\ request.responses = <<>>
     ELSE request.nextCalls = 0 /\ Len(request.responses) = 1

\* C22: a Next.js wrapper invokes the handler only after getUser has
\* resolved, only with a user that is not null and only when the core
\* check on that user is true; when getUser resolves to null, when the
\* check is not true or when getUser rejects, the handler is not invoked.
C22_NextHandlerGuarded ==
  (request.pc # "none" /\ request.adapter \in NextAdapters)
  => /\ request.handlerCalls > 0
          => /\ request.pc = "done"
             /\ ~request.rejects
             /\ request.user.kind = "object"
             /\ request.handlerUser = request.user
             /\ ReturnedTrue(CoreResult)
     /\ (request.rejects \/ request.user.kind = "null" \/ ~ReturnedTrue(CoreResult))
          => request.handlerCalls = 0

\* the handler has run for a user granted one permission of a list
C22_Witness ==
  /\ request.pc = "done"
  /\ request.adapter = "withAnyPermission"
  /\ Len(request.permissions) = 2
  /\ request.handlerCalls = 1
  /\ ~ReturnedTrue(canUserAll(request.user, request.permissions, World))

\* an option the caller has given a value
Supplied(option) == option.kind \notin {"absent", "undefined"}

\* C23: a denial by an Express middleware or a Next.js wrapper carries
\* status 403 where the options supply no statusCode and the configured
\* one where they do, and in its body the error "Forbidden" where they
\* supply no message and the configured one where they do, in the same
\* way in both adapters.
C23_DenialDefaults ==
  (request.pc = "done" /\ Len(request.responses) = 1)
  => LET response == request.responses[1]
     IN /\ response.status = IF Supplied(request.options.statusCode)
                             THEN request.options.statusCode
                             ELSE NumberValue(403)
        /\ response.body.error = IF Supplied(request.options.message)
                                 THEN request.options.message
                                 ELSE StringValue(Forbidden)

\* C24: where no PermissionProvider is present, can, canAll and canAny of
\* the context return false for every argument, so the three hooks return
\* false and Can renders its fallback; the context's user is null and its
\* registry has no role names, no role and an empty list for every role.
C24_DefaultContextDeniesAll ==
  (render.pc = "rendered" /\ ~render.context.provided)
  => /\ render.component \in {"useCan", "useCanAll", "useCanAny"}
          => ReturnedFalse(render.output)
     /\ render.component = "Can"
          => render.output = Rendered(FallbackDefault(render.props))
     /\ useUser(render.context) = NullUser
     /\ \A p \in PermissionStrings :
          /\ ReturnedFalse(ContextCan(render.context, p, World))
          /\ ReturnedFalse(ContextCanAll(render.context, <<p>>, World))
          /\ ReturnedFalse(ContextCanAny(render.context, <<p>>, World))
     /\ \A role \in RoleNames :
          /\ ContextGetPermissions(render.context, role, World).kind = "array"
          /\ ContextGetPermissions(render.context, role, World).items = <<>>
          /\ ReturnedFalse(ContextHasRole(render.context, role, World))
     /\ ContextGetRoleNames(render.context, World).items = <<>>

\* Can with a permission has rendered its fallback outside any provider
C24_Witness ==
  /\ render.pc = "rendered"
  /\ ~render.context.provided
  /\ render.component = "Can"
  /\ render.props.hasPermission
  /\ render.props.permission = <<"a", ".", "b">>
  /\ render.output = Rendered("fallback")

\* neither a single permission nor a list that is not empty
NothingToCheck(props) ==
  ~props.hasPermission /\ ~(props.hasPermissions /\ Len(props.permissions) > 0)

\* C25: given neither a single permission nor a list that is not empty,
\* Can renders its fallback (null by default) and Cannot renders its
\* children, for every user and registry, a user holding "*" included.
C25_NothingToCheck ==
  (render.pc = "rendered" /\ NothingToCheck(render.props))
  => /\ render.component = "Can"
          => render.output = Rendered(FallbackDefault(render.props))
     /\ render.component = "Cannot" => render.output = Rendered("children")

\* Can, given an empty list, has rendered nothing for a user holding "*"
C25_Witness ==
  /\ render.pc = "rendered"
  /\ render.component = "Can"
  /\ render.context.provided
  /\ render.context.user.kind = "object"
  /\ WILDCARD_PERMISSION \in Range(render.context.user.permissions)
  /\ render.props.hasPermissions
  /\ NothingToCheck(render.props)
  /\ render.output = Rendered("null")

\* what the other of the two components renders from the same props in
\* the same context
Counterpart ==
  IF render.component = "Can"
  THEN Cannot(render.props, render.context, World)
  ELSE Can(render.props, render.context, World)

\* C26: for every permission, permissions and anyOf and every user and
\* registry of the provider, exactly one of Can and Cannot given the same
\* props renders its children.
C26_CannotComplementsCan ==
  (render.pc = "rendered" /\ render.component \in {"Can", "Cannot"})
  => (render.output = Rendered("children")) # (Counterpart = Rendered("children"))

\* the lists and anyOf values a component can be given besides its
\* single permission
OtherLists == {<<>>, <<<<"a">>>>, <<<<"a", ".", "b">>, <<"a">>>>, <<WILDCARD_PERMISSION>>}
OtherAnyOf == {Undefined, BoolValue(TRUE), BoolValue(FALSE)}

\* what the rendered component renders from these props
Component(props) ==
  IF render.component = "Can" THEN Can(props, render.context, World)
  ELSE Cannot(props, render.context, World)

\* C30: given both a single permission and a permissions list, Can
\* renders its children exactly when the context's can(permission) is
\* true and Cannot exactly when it is false, and no other list and no
\* anyOf changes what is rendered.
C30_SinglePermissionFirst ==
  (/\ render.pc = "rendered"
   /\ render.component \in {"Can", "Cannot"}
   /\ render.props.hasPermission
   /\ render.props.hasPermissions)
  => LET can == ContextCan(render.context, render.props.permission, World)
     IN /\ render.component = "Can"
             => (render.output = Rendered("children") <=> ReturnedTrue(can))
        /\ render.component = "Cannot"
             => (render.output = Rendered("children") <=> ReturnedFalse(can))
        /\ \A ps \in OtherLists, anyOf \in OtherAnyOf :
             Component([render.props EXCEPT !.permissions = ps, !.anyOf = anyOf])
               = render.output

\* Can has rendered its children for a granted permission although the
\* user does not hold all of the list
C30_Witness ==
  /\ render.pc = "rendered"
  /\ render.component = "Can"
  /\ render.props.hasPermission
  /\ render.props.hasPermissions
  /\ Len(render.props.permissions) > 0
  /\ ~ReturnedTrue(ContextCanAll(render.context, render.props.permissions, World))
  /\ render.output = Rendered("children")

\* the user with one more role, with one more direct permission
WithRole(user, role) ==
  [user EXCEPT !.hasRoles = TRUE, !.roles = Append(user.roles, role)]
WithPermissionString(user, permission) ==
  [user EXCEPT !.hasPermissions = TRUE,
     !.permissions = Append(user.permissions, permission)]

\* C27: when canUser, canUserAll or canUserAny grants, it also grants to
\* the user given one more role or one more direct permission, whichever
\* role name or permission string that is: nothing added revokes a grant.
C27_GrantsAreMonotone ==
  (call.op \in {"canUser", "canUserAll", "canUserAny"} /\ ReturnedTrue(call.ret))
  => /\ \A role \in RoleNames :
          ReturnedTrue(Decide(call.op, WithRole(call.user, role),
                              call.permissions, World))
     /\ \A permission \in PermissionStrings :
          ReturnedTrue(Decide(call.op, WithPermissionString(call.user, permission),
                              call.permissions, World))

\* a sequence with its first element moved to the end, and with its first
\* element once more at the end
Rotated(s) == IF s = <<>> THEN s ELSE Append(Tail(s), Head(s))
Doubled(s) == IF s = <<>> THEN s ELSE Append(s, Head(s))
Rearranged(s) == {Rotated(s), Doubled(s)}

\* C28: canUser, canUserAll and canUserAny give the same when the user's
\* roles, the user's direct permissions or (for canUserAll and
\* canUserAny) the requested list are put in another order or hold an
\* element twice.
C28_OrderAndDuplicates ==
  (call.op \in {"canUser", "canUserAll", "canUserAny"} /\ call.user.kind = "object")
  => /\ \A roles \in Rearranged(call.user.roles) :
          Decide(call.op, [call.user EXCEPT !.roles = roles],
                 call.permissions, World) = call.ret
     /\ \A permissions \in Rearranged(call.user.permissions) :
          Decide(call.op, [call.user EXCEPT !.permissions = permissions],
                 call.permissions, World) = call.ret
     /\ call.op # "canUser"
          => \A requested \in Rearranged(call.permissions) :
               Decide(call.op, call.user, requested, World) = call.ret

\* C29: when canUserAll returns true on a list, canUserAny returns true on
\* it, and on a list of one element canUserAll and canUserAny both end as
\* canUser does on that element.
C29_AllImpliesAny ==
  (call.op \in {"canUserAll", "canUserAny"})
  => LET all == canUserAll(call.user, call.permissions, World)
         any == canUserAny(call.user, call.permissions, World)
     IN /\ ReturnedTrue(all) => ReturnedTrue(any)
        /\ Len(call.permissions) = 1
             => /\ all = canUser(call.user, call.permissions[1], World)
                /\ any = canUser(call.user, call.permissions[1], World)
        /\ call.ret = IF call.op = "canUserAll" THEN all ELSE any

\* canUserAll has granted a list of two different permissions
C29_Witness ==
  /\ call.op = "canUserAll"
  /\ Len(call.permissions) = 2
  /\ call.permissions[1] # call.permissions[2]
  /\ ReturnedTrue(call.ret)
  /\ ReturnedTrue(canUserAny(call.user, call.permissions, World))
  /\ WILDCARD_PERMISSION \notin EffectiveSet(call.user, World)

====
